---- MODULE Spec2Model ----
(***************************************************************************)
(* HintAI: the structural analyzer (backend/parser/code_analyzer.py), the  *)
(* similarity ranker (backend/rag/embedder.py) and the hint engine         *)
(* (backend/api/main.py) as state machines.                                *)
(*                                                                         *)
(* A submission is a sequence of lines, each an indentation level and one  *)
(* statement form.  ast.parse is modelled by Parse: it rejects the texts   *)
(* Python rejects (a header with no indented block, an indent after a      *)
(* simple statement, an unclosed parenthesis) and otherwise yields the     *)
(* tree whose nodes are the lines.                                         *)
(***************************************************************************)
EXTENDS Integers, Sequences, FiniteSets, TLC

\* ------------------------------------------------------------------ bounds
MaxLines == 4
MaxIndent == 3
MaxCand == 7
MaxTopK == 3
MaxCorpus == 2
MaxHintLines == 2
NumCallers == 2
MaxConcLines == 2
MaxLoops == 4
MaxDepth == 3
MaxRecords == 4
MaxMessages == 2
MaxHistLines == 3

\* ------------------------------------------------------------ source text
\* Statement forms a line can hold:
\*   "for"   for x in xs:          "while"  while c:        "if"  if c:
\*   "pass"  pass                  "dict"   seen = dict()   "list" out = list()
\*   "{}"    seen = {}             "("      foo(            (never closed)
\*   "surrogate"  s = '\ud800'      (a lone surrogate, which utf-8 cannot encode)
Tokens == {"for", "while", "if", "pass", "dict", "list", "{}", "(", "surrogate"}

Headers == {"for", "while", "if"}

RECURSIVE Shapes(_)
\* The indentation of every text of exactly n lines whose first line is not
\* indented and whose lines go at most one level deeper than the line before.
Shapes(n) ==
    IF n = 0 THEN {<<>>}
    ELSE IF n = 1 THEN {<<0>>}
    ELSE UNION {{Append(t, d) : d \in 0..(IF t[n - 1] < MaxIndent THEN t[n - 1] + 1 ELSE MaxIndent)} :
                  t \in Shapes(n - 1)}

AllShapes == UNION {Shapes(n) : n \in 0..MaxLines}

\* The text with indentation `shape` and statement forms `toks`.
Text(shape, toks) == [i \in 1..Len(shape) |-> [indent |-> shape[i], tok |-> toks[i]]]

\* ---------------------------------------------------------------- ast.parse
\* ast.parse raises SyntaxError (IndentationError is one) on these texts.
SyntaxErrorAt(code, i) ==
    \/ code[i].tok = "("
    \/ i = 1 /\ code[i].indent # 0
    \/ i > 1 /\ code[i - 1].tok \in Headers /\ code[i].indent # code[i - 1].indent + 1
    \/ i > 1 /\ code[i - 1].tok \notin Headers /\ code[i].indent > code[i - 1].indent
    \/ i = Len(code) /\ code[i].tok \in Headers

\* ast.parse encodes the text before it parses it: a lone surrogate raises
\* UnicodeEncodeError (a ValueError, not a SyntaxError) whatever else the
\* text holds.
EncodeFails(code) == \E i \in 1..Len(code) : code[i].tok = "surrogate"

\* ast.parse(code) does not give a tree.
ParseFails(code) == EncodeFails(code) \/ \E i \in 1..Len(code) : SyntaxErrorAt(code, i)

\* The tree of a parsed text: node 0 is the Module, node i is line i.
IndentOf(code, i) == IF i = 0 THEN 0 - 1 ELSE code[i].indent

\* node.body as the set of its statements' line numbers (in line order).
BodySet(code, i) ==
    {j \in (i + 1)..Len(code) :
        /\ code[j].indent = IndentOf(code, i) + 1
        /\ \A k \in (i + 1)..(j - 1) : code[k].indent > IndentOf(code, i)}

IsLoopNode(code, j) == code[j].tok \in {"for", "while"}

Min(S) == CHOOSE x \in S : \A y \in S : x <= y

Max2(a, b) == IF a >= b THEN a ELSE b

\* ast.walk: breadth first from the Module, so by depth and then line order.
LineNumbers(code) == [i \in 1..Len(code) |-> i]

Level(code, d) ==
    LET AtDepth(j) == code[j].indent = d
    IN  SelectSeq(LineNumbers(code), AtDepth)

RECURSIVE WalkLevels(_, _)
WalkLevels(code, d) ==
    IF d > MaxIndent THEN <<>>
    ELSE Level(code, d) \o WalkLevels(code, d + 1)

WalkOrder(code) == WalkLevels(code, 0)

\* ------------------------------------------------------------ CodeAnalyzer
AllowList == {"dict", "set", "list", "deque", "heap"}

\* The ast.Name identifiers a statement's expressions hold.
NamesOf(tok) == IF tok \in {"dict", "list"} THEN {tok} ELSE {}

NewAnalyzer ==
    [loop_count |-> 0, nested_loop_depth |-> 0, current_depth |-> 0,
     data_structures_used |-> {}, functions_called |-> <<>>]

\* _reset leaving the set of data structures as it was.
ResetKeepsStructures(an) ==
    [NewAnalyzer EXCEPT !.data_structures_used = an.data_structures_used]

Reset(an) == NewAnalyzer

RECURSIVE ChainDepth(_, _)
\* _check_nested_loops' while loop from `current`: follow the first loop
\* statement of each body, one more depth for each.
ChainDepth(code, current) ==
    LET loops == {j \in BodySet(code, current) : IsLoopNode(code, j)}
    IN  IF loops = {} THEN 0
        ELSE 1 + ChainDepth(code, Min(loops))

CheckNestedLoops(an, code, loop_node) ==
    [an EXCEPT !.nested_loop_depth =
        Max2(an.nested_loop_depth, ChainDepth(code, loop_node))]

\* One iteration of _walk_tree's loop, for statement `child` and the
\* expression nodes under it.
VisitNode(an, code, child) ==
    LET tok == code[child].tok
    IN  IF tok = "for"
        THEN CheckNestedLoops([an EXCEPT !.loop_count = @ + 1], code, child)
        ELSE IF tok = "while"
        THEN [an EXCEPT !.loop_count = @ + 1]
        ELSE [an EXCEPT !.data_structures_used = @ \cup (NamesOf(tok) \cap AllowList)]

RECURSIVE WalkFrom(_, _, _, _)
WalkFrom(an, code, order, k) ==
    IF k > Len(order) THEN an
    ELSE WalkFrom(VisitNode(an, code, order[k]), code, order, k + 1)

WalkTree(an, code) == WalkFrom(an, code, WalkOrder(code), 1)

\* _detect_pattern with the hash-map test moved above the nesting test.
DetectPatternHashFirst(an) ==
    IF "dict" \in an.data_structures_used \/ "set" \in an.data_structures_used
    THEN "hash_map"
    ELSE IF an.nested_loop_depth >= 2 THEN "nested_loops"
    ELSE IF an.loop_count = 1 THEN "single_pass"
    ELSE IF an.loop_count = 0 THEN "no_iteration"
    ELSE "unknown"

\* _detect_pattern with the loop-count tests moved above the hash-map test.
DetectPatternLoopsFirst(an) ==
    IF an.nested_loop_depth >= 2 THEN "nested_loops"
    ELSE IF an.loop_count = 1 THEN "single_pass"
    ELSE IF an.loop_count = 0 THEN "no_iteration"
    ELSE IF "dict" \in an.data_structures_used \/ "set" \in an.data_structures_used
    THEN "hash_map"
    ELSE "unknown"

DetectPattern(an) ==
    IF an.nested_loop_depth >= 2 THEN "nested_loops"
    ELSE IF "dict" \in an.data_structures_used \/ "set" \in an.data_structures_used
    THEN "hash_map"
    ELSE IF an.loop_count = 1 THEN "single_pass"
    ELSE IF an.loop_count = 0 THEN "no_iteration"
    ELSE "unknown"

EstimateComplexity(an) ==
    IF an.nested_loop_depth >= 3 THEN "O(n^3) or worse"
    ELSE IF an.nested_loop_depth = 2 THEN "O(n^2)"
    ELSE IF an.loop_count = 1 THEN "O(n)"
    ELSE "O(1)"

\* The dict analyze returns once the walk is over.
AnalysisDict(an) ==
    [loop_count |-> an.loop_count,
     nested_loop_depth |-> an.nested_loop_depth,
     data_structures |-> an.data_structures_used,
     pattern |-> DetectPattern(an),
     complexity_estimate |-> EstimateComplexity(an)]

ErrorDict == [error |-> "Syntax error in code", pattern |-> "invalid"]

\* What a call that raised leaves in place of a result.
NoResult == [none |-> TRUE]

\* analyze(code): the analyzer's fields afterwards, and the dict returned or
\* the exception that left the call (only SyntaxError is caught).
Analyze(an, code) ==
    IF EncodeFails(code)
    THEN [an |-> Reset(an), outcome |-> "raised", exc |-> "UnicodeEncodeError",
          result |-> NoResult]
    ELSE IF ParseFails(code)
    THEN [an |-> Reset(an), outcome |-> "returned", exc |-> "None", result |-> ErrorDict]
    ELSE LET done == WalkTree(Reset(an), code)
         IN  [an |-> done, outcome |-> "returned", exc |-> "None",
              result |-> AnalysisDict(done)]

\* ------------------------------------------------------------ CodeEmbedder
\* Embedding vectors, cut to two integer coordinates.
Vecs == {<<0, 0>>, <<1, 0>>, <<0, 1>>, <<1, 1>>}

Dot(a, b) == a[1] * b[1] + a[2] * b[2]

NormSq(a) == Dot(a, a)

\* A similarity score: nan, or the cosine c held as sign(c) * c^2 =
\* num / den (den > 0), which orders scores as the cosines themselves do.
NaN == [nan |-> TRUE, num |-> 0, den |-> 1]

\* similarity(vec1, vec2): dividing by a zero norm gives nan coordinates (numpy
\* warns and goes on), and the dot product of a nan vector is nan.
Similarity(vec1, vec2) ==
    IF NormSq(vec1) = 0 \/ NormSq(vec2) = 0 THEN NaN
    ELSE LET d == Dot(vec1, vec2)
         IN  [nan |-> FALSE,
              num |-> IF d >= 0 THEN d * d ELSE 0 - d * d,
              den |-> NormSq(vec1) * NormSq(vec2)]

\* x < y on floats: False whenever either is nan.
FloatLess(x, y) == ~x.nan /\ ~y.nan /\ x.num * y.den < y.num * x.den

\* list.sort(key=lambda x: x[1], reverse=True) on a list of (idx, sim) pairs
\* shorter than 64: the list is reversed, its leading run is found, the rest
\* is inserted by binary search, and the list is reversed back.
KeyLess(x, y) == FloatLess(x[2], y[2])

ReverseSeq(a) == [i \in 1..Len(a) |-> a[Len(a) + 1 - i]]

RECURSIVE RunEnd(_, _, _)
RunEnd(a, i, descending) ==
    IF i > Len(a) THEN i - 1
    ELSE IF KeyLess(a[i], a[i - 1]) = descending THEN RunEnd(a, i + 1, descending)
    ELSE i - 1

CountRun(a) ==
    IF Len(a) <= 1 THEN [n |-> Len(a), descending |-> FALSE]
    ELSE LET descending == KeyLess(a[2], a[1])
         IN  [n |-> RunEnd(a, 3, descending), descending |-> descending]

RECURSIVE BinarySearch(_, _, _, _)
BinarySearch(a, pivot, l, r) ==
    IF l < r
    THEN LET p == l + ((r - l) \div 2)
         IN  IF KeyLess(pivot, a[p]) THEN BinarySearch(a, pivot, l, p)
             ELSE BinarySearch(a, pivot, p + 1, r)
    ELSE l

\* a with a[start] moved down to position l.
InsertAt(a, start, l) ==
    [i \in 1..Len(a) |->
        IF i < l \/ i > start THEN a[i]
        ELSE IF i = l THEN a[start]
        ELSE a[i - 1]]

RECURSIVE BinarySort(_, _)
BinarySort(a, start) ==
    IF start > Len(a) THEN a
    ELSE BinarySort(InsertAt(a, start, BinarySearch(a, a[start], 1, start)), start + 1)

ReverseRun(a, n) == [i \in 1..Len(a) |-> IF i <= n THEN a[n + 1 - i] ELSE a[i]]

ListSortReverse(a) ==
    LET r   == ReverseSeq(a)
        run == CountRun(r)
        asc == IF run.descending THEN ReverseRun(r, run.n) ELSE r
    IN  ReverseSeq(BinarySort(asc, run.n + 1))

\* a[:k]
SliceTo(a, k) ==
    LET n == IF k >= 0 THEN (IF k < Len(a) THEN k ELSE Len(a))
             ELSE (IF Len(a) + k > 0 THEN Len(a) + k ELSE 0)
    IN  [i \in 1..n |-> a[i]]

\* find_most_similar: (idx, sim) pairs, idx counted from 0.
FindMostSimilar(query_vec, candidate_vecs, top_k) ==
    LET similarities ==
            [i \in 1..Len(candidate_vecs) |->
                <<i - 1, Similarity(query_vec, candidate_vecs[i])>>]
    IN  SliceTo(ListSortReverse(similarities), top_k)

\* embed_code_with_context's combined text: the code, then a "Problem:" and
\* a "Pattern:" line for each of the two that is given.
None == "None"

CombinedText(code, problem, pattern) ==
    <<code>> \o (IF problem # None THEN <<<<"Problem: ", problem>>>> ELSE <<>>)
             \o (IF pattern # None THEN <<<<"Pattern: ", pattern>>>> ELSE <<>>)

\* What model.encode may do with a text: return one of the vectors, or fail.
EmbedFail == [ok |-> FALSE, vec |-> <<0, 0>>]

\* The vectors the embedding model is taken to produce: a sentence embedding
\* is never the zero vector.
EmbedVecs == {<<1, 0>>, <<0, 1>>, <<1, 1>>}

EmbedOutcomes == {[ok |-> TRUE, vec |-> v] : v \in EmbedVecs} \cup {EmbedFail}

\* An embedding: the vector, and the text it was computed from.
Embedding(text, vec) == [of |-> text, vec |-> vec]

\* ------------------------------------------------------------ the corpus
L(d, t) == [indent |-> d, tok |-> t]

SolNested ==
    [problem |-> "Two Sum", approach |-> "nested_loops",
     code |-> <<L(0, "for"), L(1, "for"), L(2, "pass")>>,
     time_complexity |-> "O(n^2)", space_complexity |-> "O(1)",
     hints |-> <<"n1", "n2", "n3">>]

SolHash ==
    [problem |-> "Two Sum", approach |-> "hash_map",
     code |-> <<L(0, "{}"), L(0, "for"), L(1, "pass")>>,
     time_complexity |-> "O(n)", space_complexity |-> "O(n)",
     hints |-> <<"h1", "h2">>]

\* A record whose "code" field is missing.
SolNoCode ==
    [problem |-> "Valid Parentheses", approach |-> "stack",
     time_complexity |-> "O(n)", space_complexity |-> "O(n)",
     hints |-> <<"s1">>]

Records == {SolNested, SolHash, SolNoCode}

SolStack ==
    [problem |-> "Valid Parentheses", approach |-> "stack",
     code |-> <<L(0, "{}"), L(0, "for"), L(1, "if"), L(2, "pass")>>,
     time_complexity |-> "O(n)", space_complexity |-> "O(n)",
     hints |-> <<"s1", "s2", "s3">>]

SolSinglePass ==
    [problem |-> "Best Time to Buy and Sell Stock", approach |-> "single_pass",
     code |-> <<L(0, "for"), L(1, "if"), L(2, "pass")>>,
     time_complexity |-> "O(n)", space_complexity |-> "O(1)",
     hints |-> <<"p1", "p2", "p3">>]

SolHashSet ==
    [problem |-> "Contains Duplicate", approach |-> "hash_set",
     code |-> <<L(0, "pass"), L(0, "for"), L(1, "if"), L(2, "pass")>>,
     time_complexity |-> "O(n)", space_complexity |-> "O(n)",
     hints |-> <<"d1", "d2", "d3">>]

SolTwoPointer ==
    [problem |-> "Reverse String", approach |-> "two_pointer",
     code |-> <<L(0, "pass"), L(0, "while"), L(1, "pass")>>,
     time_complexity |-> "O(n)", space_complexity |-> "O(1)",
     hints |-> <<"t1", "t2", "t3">>]

\* SAMPLE_SOLUTIONS as the repository has it.
SampleSolutions ==
    <<SolNested, SolHash, SolStack, SolSinglePass, SolHashSet, SolTwoPointer>>

Corpora == UNION {[1..n -> Records] : n \in 0..MaxCorpus}

Has(d, key) == key \in DOMAIN d

\* The fields _initialize reads of a record.
WellFormed(sol) == Has(sol, "code") /\ Has(sol, "problem") /\ Has(sol, "approach")

SolText(sol) == CombinedText(sol.code, sol.problem, sol.approach)

\* ------------------------------------------------------------ HintAIEngine
\* An engine object: the attributes set on it so far and their values; its
\* analyzer's fields are the variable `analyzer`.
NewObject == [exists |-> TRUE, attrs |-> {}, solutions |-> <<>>, solution_embeddings |-> <<>>]

\* HintAIEngine._instance while it is None.
NoInstance == [exists |-> FALSE, attrs |-> {}, solutions |-> <<>>, solution_embeddings |-> <<>>]

AllAttrs == {"analyzer", "embedder", "solutions", "solution_embeddings"}

\* _initialize on a fresh object, as far as it gets: `load` says whether
\* CodeEmbedder() loads its model, out[i] what embedding record i does.
\* Gives the object as it is left and how the call ended.
RECURSIVE InitLoop(_, _, _, _)
InitLoop(obj, sols, out, i) ==
    IF i > Len(sols) THEN [obj |-> obj, exc |-> None]
    ELSE IF ~WellFormed(sols[i]) THEN [obj |-> obj, exc |-> "KeyError"]
    ELSE IF out[i] = EmbedFail THEN [obj |-> obj, exc |-> "EmbeddingError"]
    ELSE InitLoop([obj EXCEPT !.solution_embeddings =
                        Append(@, Embedding(SolText(sols[i]), out[i].vec))],
                  sols, out, i + 1)

Initialize(obj, sols, load, out) ==
    LET o1 == [obj EXCEPT !.attrs = @ \cup {"analyzer"}]
    IN  IF ~load THEN [obj |-> o1, exc |-> "ModelLoadError"]
        ELSE InitLoop([o1 EXCEPT !.attrs = AllAttrs,
                                 !.solutions = sols,
                                 !.solution_embeddings = <<>>],
                      sols, out, 1)

VecsOf(embeddings) == [i \in 1..Len(embeddings) |-> embeddings[i].vec]

Raised(exc, trace) == [outcome |-> "raised", exc |-> exc, result |-> NoResult, trace |-> trace]

\* The top_k get_hint asks the ranker for.
HintTopK == 3

\* Step 4 with the last match taken for the best one.
BestMatchLast(matches) == matches[Len(matches)]

\* matches[0]
BestMatch(matches) == matches[1]

\* get_hint from step 2 on: `analysis` is what analyze returned, `q` what
\* embedding the submission does.  trace lists the embedder calls made.
GetHintTail(obj, analysis, q) ==
    IF "embedder" \notin obj.attrs THEN Raised("AttributeError", <<>>)
    ELSE IF q = EmbedFail THEN Raised("EmbeddingError", <<"embed">>)
    ELSE IF "solution_embeddings" \notin obj.attrs
    THEN Raised("AttributeError", <<"embed">>)
    ELSE LET matches == FindMostSimilar(q.vec, VecsOf(obj.solution_embeddings), HintTopK)
             trace   == <<"embed", "rank">>
         IN  IF matches = <<>> THEN Raised("IndexError", trace)
             ELSE LET best_match_idx   == BestMatch(matches)[1]
                      best_match_score == BestMatch(matches)[2]
                      best_solution    == obj.solutions[best_match_idx + 1]
                  IN  IF ~Has(analysis, "complexity_estimate") \/ ~Has(analysis, "loop_count")
                      THEN Raised("KeyError", trace)
                      ELSE IF \E k \in {"problem", "approach", "time_complexity",
                                        "space_complexity", "hints"} : ~Has(best_solution, k)
                      THEN Raised("KeyError", trace)
                      ELSE IF \E m \in 1..Len(matches) :
                                \E k \in {"problem", "approach"} :
                                    ~Has(obj.solutions[matches[m][1] + 1], k)
                      THEN Raised("KeyError", trace)
                      ELSE
                      [outcome |-> "returned", exc |-> None, trace |-> trace,
                       result |->
                         [analysis |-> [pattern |-> analysis.pattern,
                                        complexity |-> analysis.complexity_estimate,
                                        loop_count |-> analysis.loop_count],
                          similarity_score |-> best_match_score,
                          matched_solution |->
                              [problem |-> best_solution.problem,
                               approach |-> best_solution.approach,
                               time_complexity |-> best_solution.time_complexity,
                               space_complexity |-> best_solution.space_complexity],
                          hints |-> best_solution.hints,
                          top_matches |->
                              [m \in 1..Len(matches) |->
                                  [problem |-> obj.solutions[matches[m][1] + 1].problem,
                                   approach |-> obj.solutions[matches[m][1] + 1].approach,
                                   similarity |-> matches[m][2]]]]]

\* ------------------------------------------------------------------- state
VARIABLES
    analyzer,   \* the CodeAnalyzer object's fields (the engine's, once it has one)
    last,       \* the analyze call being answered: its code and its result
    rank,       \* the find_most_similar call being answered
    corpus,     \* SAMPLE_SOLUTIONS
    instance,   \* HintAIEngine._instance: None, or the engine object
    handed,     \* whether a HintAIEngine() call has returned the instance
    ctor,       \* how the last HintAIEngine() call ended
    hint,       \* the get_hint call being answered
    calls,      \* the get_hint calls in flight on the shared engine, by caller
    socket      \* one /ws/hints connection: its handler's position and what it sent

vars == <<analyzer, last, rank, corpus, instance, handed, ctor, hint, calls, socket>>

NoCall == [call |-> "none"]

Callers == 1..NumCallers

IdleCall == [pc |-> "idle", code |-> <<>>, k |-> 0, pattern |-> None,
             analysis |-> NoResult, out |-> NoResult]

\* No connection accepted.
NoSocket == [pc |-> "none"]

\* The variables a specification leaves alone start here.
InitRest(used) ==
    /\ "analyzer" \in used \/ analyzer = NewAnalyzer
    /\ "last" \in used \/ last = NoCall
    /\ "rank" \in used \/ rank = NoCall
    /\ "corpus" \in used \/ corpus = <<>>
    /\ "instance" \in used \/ instance = NoInstance
    /\ "handed" \in used \/ handed = FALSE
    /\ "ctor" \in used \/ ctor = NoCall
    /\ "hint" \in used \/ hint = NoCall
    /\ "calls" \in used \/ calls = [c \in Callers |-> IdleCall]
    /\ "socket" \in used \/ socket = NoSocket

\* ------------------------------------------- a CodeAnalyzer called in turn
\* analyzer.analyze(code) on any text.
AnalyzeCall ==
    /\ last = NoCall
    /\ \E shape \in AllShapes : \E toks \in [1..Len(shape) -> Tokens] :
          LET code == Text(shape, toks)
              r    == Analyze(analyzer, code)
          IN  /\ analyzer' = r.an
              /\ last' = [call |-> "analyze", code |-> code, outcome |-> r.outcome,
                          exc |-> r.exc, result |-> r.result]
    /\ UNCHANGED <<rank, corpus, instance, handed, ctor, hint, calls, socket>>

AnalyzeReturn ==
    /\ last # NoCall
    /\ last' = NoCall
    /\ UNCHANGED <<analyzer, rank, corpus, instance, handed, ctor, hint, calls, socket>>

InitAnalyze ==
    /\ analyzer = NewAnalyzer
    /\ last = NoCall
    /\ InitRest({"analyzer", "last"})

NextAnalyze ==
    \/ AnalyzeCall
    \/ AnalyzeReturn

SpecAnalyze == InitAnalyze /\ [][NextAnalyze]_vars

\* ------------------------------------------------- the ranker called in turn
TopKs == (0 - 1)..MaxTopK

\* embedder.find_most_similar(query_vec, candidate_vecs, top_k).
RankCall ==
    /\ rank = NoCall
    /\ \E query_vec \in Vecs : \E n \in 0..MaxCand :
       \E candidate_vecs \in [1..n -> Vecs] : \E top_k \in TopKs :
          rank' = [call |-> "find_most_similar", query |-> query_vec,
                   cands |-> candidate_vecs, top_k |-> top_k,
                   outcome |-> "returned",
                   out |-> FindMostSimilar(query_vec, candidate_vecs, top_k)]
    /\ UNCHANGED <<analyzer, last, corpus, instance, handed, ctor, hint, calls, socket>>

RankReturn ==
    /\ rank # NoCall
    /\ rank' = NoCall
    /\ UNCHANGED <<analyzer, last, corpus, instance, handed, ctor, hint, calls, socket>>

InitRank ==
    /\ rank = NoCall
    /\ InitRest({"rank"})

NextRank ==
    \/ RankCall
    \/ RankReturn

SpecRank == InitRank /\ [][NextRank]_vars

\* ----------------------------------------------------- the engine singleton
\* HintAIEngine(): __new__ builds and initializes the instance when there is
\* none, and hands out the one there is otherwise.
Construct ==
    \/ /\ ~instance.exists
       /\ \E load \in BOOLEAN : \E out \in [1..Len(corpus) -> EmbedOutcomes] :
             LET r == Initialize(NewObject, corpus, load, out)
             IN  /\ instance' = r.obj
                 /\ analyzer' = NewAnalyzer
                 /\ ctor' = [call |-> "HintAIEngine",
                             outcome |-> IF r.exc = None THEN "returned" ELSE "raised",
                             exc |-> r.exc]
                 /\ handed' = (handed \/ r.exc = None)
       /\ UNCHANGED <<last, rank, corpus, hint, calls, socket>>
    \/ /\ instance.exists
       /\ ctor' = [call |-> "HintAIEngine",
                   outcome |-> "returned", exc |-> None]
       /\ handed' = TRUE
       /\ UNCHANGED <<analyzer, last, rank, corpus, instance, hint, calls, socket>>

HintShapes == UNION {Shapes(n) : n \in 0..MaxHintLines}

\* The statement forms of the submissions sent to the engine.
HintTokens == {"for", "pass", "dict", "("}

Problems == {None, "Two Sum"}

\* get_hint(user_code, problem_name), whatever the embedding of the
\* submission does.
GetHintOn(user_code) ==
    \E problem_name \in Problems : \E q \in EmbedOutcomes :
        LET a == Analyze(analyzer, user_code)
            t == IF a.outcome = "raised" THEN Raised(a.exc, <<>>)
                 ELSE GetHintTail(instance, a.result, q)
        IN  /\ analyzer' = a.an
            /\ hint' = [call |-> "get_hint", code |-> user_code,
                        problem |-> problem_name, outcome |-> t.outcome,
                        exc |-> t.exc, result |-> t.result, trace |-> t.trace,
                        query |-> q, before |-> instance]

\* hint_engine.get_hint(user_code, problem_name) on an engine handed out.
GetHint ==
    /\ handed
    /\ hint = NoCall
    /\ \E shape \in HintShapes : \E toks \in [1..Len(shape) -> HintTokens] :
          GetHintOn(Text(shape, toks))
    /\ UNCHANGED <<last, rank, corpus, instance, handed, ctor, calls, socket>>

HintReturn ==
    /\ hint # NoCall
    /\ hint' = NoCall
    /\ UNCHANGED <<analyzer, last, rank, corpus, instance, handed, ctor, calls, socket>>

InitEngine ==
    /\ corpus \in Corpora
    /\ instance = NoInstance
    /\ handed = FALSE
    /\ ctor = NoCall
    /\ hint = NoCall
    /\ InitRest({"corpus", "instance", "handed", "ctor", "hint"})

NextEngine ==
    \/ Construct
    \/ GetHint
    \/ HintReturn

SpecEngine == InitEngine /\ [][NextEngine]_vars

\* ------------------------------------- get_hint calls in flight together
\* Each caller runs get_hint on the one engine; a step is one statement of
\* analyze (the reset and parse, one iteration of the walk, the pattern, the
\* dict) or the rest of get_hint.
ConcTokens == {"for", "pass", "dict"}

ConcShapes == UNION {Shapes(n) : n \in 0..MaxConcLines}

Start(c) ==
    /\ calls[c].pc = "idle"
    /\ \E shape \in ConcShapes : \E toks \in [1..Len(shape) -> ConcTokens] :
          calls' = [calls EXCEPT ![c] = [IdleCall EXCEPT !.pc = "reset",
                                                         !.code = Text(shape, toks)]]
    /\ UNCHANGED <<analyzer, last, rank, corpus, instance, handed, ctor, hint, socket>>

\* self._reset(), then ast.parse(code).
StepReset(c) ==
    /\ calls[c].pc = "reset"
    /\ analyzer' = Reset(analyzer)
    /\ calls' = [calls EXCEPT ![c] =
          IF ParseFails(calls[c].code)
          THEN [@ EXCEPT !.pc = "analyzed", !.analysis = ErrorDict]
          ELSE IF WalkOrder(calls[c].code) = <<>>
          THEN [@ EXCEPT !.pc = "detect"]
          ELSE [@ EXCEPT !.pc = "walk", !.k = 1]]
    /\ UNCHANGED <<last, rank, corpus, instance, handed, ctor, hint, socket>>

\* One iteration of _walk_tree's loop.
StepWalk(c) ==
    /\ calls[c].pc = "walk"
    /\ LET order == WalkOrder(calls[c].code)
       IN  /\ analyzer' = VisitNode(analyzer, calls[c].code, order[calls[c].k])
           /\ calls' = [calls EXCEPT ![c] =
                 IF calls[c].k = Len(order)
                 THEN [@ EXCEPT !.pc = "detect"]
                 ELSE [@ EXCEPT !.k = @ + 1]]
    /\ UNCHANGED <<last, rank, corpus, instance, handed, ctor, hint, socket>>

\* pattern = self._detect_pattern()
StepDetect(c) ==
    /\ calls[c].pc = "detect"
    /\ calls' = [calls EXCEPT ![c] = [@ EXCEPT !.pc = "build",
                                               !.pattern = DetectPattern(analyzer)]]
    /\ UNCHANGED <<analyzer, last, rank, corpus, instance, handed, ctor, hint, socket>>

\* The dict analyze returns, read off the analyzer's fields.
StepBuild(c) ==
    /\ calls[c].pc = "build"
    /\ calls' = [calls EXCEPT ![c] =
          [@ EXCEPT !.pc = "analyzed",
                    !.analysis = [AnalysisDict(analyzer) EXCEPT !.pattern = calls[c].pattern]]]
    /\ UNCHANGED <<analyzer, last, rank, corpus, instance, handed, ctor, hint, socket>>

\* Steps 2 to 4 of get_hint and its return value.
StepFinish(c) ==
    /\ calls[c].pc = "analyzed"
    /\ \E q \in EmbedOutcomes :
          calls' = [calls EXCEPT ![c] =
              [@ EXCEPT !.pc = "done", !.out = GetHintTail(instance, calls[c].analysis, q)]]
    /\ UNCHANGED <<analyzer, last, rank, corpus, instance, handed, ctor, hint, socket>>

Return(c) ==
    /\ calls[c].pc = "done"
    /\ calls' = [calls EXCEPT ![c] = IdleCall]
    /\ UNCHANGED <<analyzer, last, rank, corpus, instance, handed, ctor, hint, socket>>

\* The engine main.py builds at import, over a two-record corpus.
InitConc ==
    /\ corpus = <<SolNested, SolHash>>
    /\ instance = Initialize(NewObject, corpus, TRUE,
                             <<[ok |-> TRUE, vec |-> <<1, 0>>],
                               [ok |-> TRUE, vec |-> <<1, 1>>]>>).obj
    /\ analyzer = NewAnalyzer
    /\ handed = TRUE
    /\ ctor = [call |-> "HintAIEngine", outcome |-> "returned", exc |-> None]
    /\ calls = [c \in Callers |-> IdleCall]
    /\ InitRest({"corpus", "instance", "analyzer", "handed", "ctor", "calls"})

NextConc ==
    \E c \in Callers :
        \/ Start(c)
        \/ StepReset(c)
        \/ StepWalk(c)
        \/ StepDetect(c)
        \/ StepBuild(c)
        \/ StepFinish(c)
        \/ Return(c)

SpecConc == InitConc /\ [][NextConc]_vars

\* --------------------------------------- _detect_pattern on walked counters
\* The counters a walk can leave: a nesting depth d > 0 takes a for loop and
\* d loops chained under it; any of the allow-listed names may have been seen.
WalkedAnalyzers ==
    {an \in [loop_count : 0..MaxLoops, nested_loop_depth : 0..MaxDepth,
             current_depth : {0}, data_structures_used : SUBSET AllowList,
             functions_called : {<<>>}] :
        an.nested_loop_depth = 0 \/ an.nested_loop_depth < an.loop_count}

DetectCall ==
    /\ last = NoCall
    /\ last' = [call |-> "_detect_pattern", pattern |-> DetectPattern(analyzer)]
    /\ UNCHANGED <<analyzer, rank, corpus, instance, handed, ctor, hint, calls, socket>>

DetectReturn ==
    /\ last # NoCall
    /\ last' = NoCall
    /\ UNCHANGED <<analyzer, rank, corpus, instance, handed, ctor, hint, calls, socket>>

InitPattern ==
    /\ analyzer \in WalkedAnalyzers
    /\ last = NoCall
    /\ InitRest({"analyzer", "last"})

NextPattern ==
    \/ DetectCall
    \/ DetectReturn

SpecPattern == InitPattern /\ [][NextPattern]_vars

\* ------------------------------------ get_hint on the engine as it starts
\* hint_engine over the first n sample solutions, each embedded as some vector.
EngineOver(sols, vs) ==
    Initialize(NewObject, sols, TRUE, [i \in 1..Len(sols) |-> [ok |-> TRUE, vec |-> vs[i]]]).obj

\* Submissions sent to the running engine: none, a statement, one naming
\* dict, a loop, and one with a parenthesis left open.
SampleSubmissions ==
    {<<>>, <<L(0, "pass")>>, <<L(0, "dict")>>, <<L(0, "for"), L(1, "pass")>>, <<L(0, "(")>>}

GetSampleHint ==
    /\ handed
    /\ hint = NoCall
    /\ \E user_code \in SampleSubmissions : GetHintOn(user_code)
    /\ UNCHANGED <<last, rank, corpus, instance, handed, ctor, calls, socket>>

InitHint ==
    /\ \E n \in 1..(IF MaxRecords < Len(SampleSolutions) THEN MaxRecords
                     ELSE Len(SampleSolutions)) :
          /\ corpus = SubSeq(SampleSolutions, 1, n)
          /\ \E vs \in [1..n -> EmbedVecs] : instance = EngineOver(corpus, vs)
    /\ analyzer = NewAnalyzer
    /\ handed = TRUE
    /\ ctor = [call |-> "HintAIEngine", outcome |-> "returned", exc |-> None]
    /\ hint = NoCall
    /\ InitRest({"corpus", "instance", "analyzer", "handed", "ctor", "hint"})

NextHint ==
    \/ GetSampleHint
    \/ HintReturn

SpecHint == InitHint /\ [][NextHint]_vars

\* --------------------------------------------- the /ws/hints connection
\* What a client sends: text json.loads rejects, or an object holding code.
Malformed == [kind |-> "malformed", code |-> <<>>]

ObjectWith(code) == [kind |-> "object", code |-> code]

\* not code.strip()
Blank(code) == code = <<>>

NoCodeError == [type |-> "error", message |-> "No code provided"]

ErrorMessage(exc) == [type |-> "error", message |-> exc]

AnalysisMessage(result) == [type |-> "analysis", data |-> result.analysis]

MatchMessage(result) ==
    [type |-> "match", data |-> result.matched_solution,
     similarity |-> result.similarity_score]

\* The hint message with the hints taken from the end of the list.
HintMessageReversed(result, level) ==
    [type |-> "hint", level |-> level,
     text |-> result.hints[Len(result.hints) + 1 - level]]

\* enumerate(result['hints'], 1)
HintMessage(result, level) ==
    [type |-> "hint", level |-> level, text |-> result.hints[level]]

CompleteMessage == [type |-> "complete"]

\* The handler after websocket.accept(): awaiting receive_text.
Accepted ==
    [pc |-> "receive", n |-> 0, sent |-> <<>>, start |-> 0, msg |-> Malformed,
     result |-> NoResult, level |-> 0, exc |-> None]

\* The except clause sending the error and the handler going back to receive.
ReceiveAfterError(sock) ==
    [sock EXCEPT !.pc = "receive", !.sent = Append(@, ErrorMessage(sock.exc))]

\* The handler once its except clause has sent the error and returned.
ClosedAfterError(sock) ==
    [sock EXCEPT !.pc = "closed", !.sent = Append(@, ErrorMessage(sock.exc))]

\* receive_text returns `data`; the handler runs to its next await:
\* json.loads, the blank test, get_hint.
Receive ==
    /\ socket.pc = "receive"
    /\ socket.n < MaxMessages
    /\ \/ /\ socket' = [socket EXCEPT !.pc = "send_error", !.n = @ + 1,
                                       !.start = Len(socket.sent), !.msg = Malformed,
                                       !.result = NoResult, !.level = 0,
                                       !.exc = "JSONDecodeError"]
          /\ UNCHANGED analyzer
       \/ \E code \in SampleSubmissions :
          \E problem \in Problems : \E q \in EmbedOutcomes :
             LET a == Analyze(analyzer, code)
                 t == IF a.outcome = "raised" THEN Raised(a.exc, <<>>)
                      ELSE GetHintTail(instance, a.result, q)
                 got == [socket EXCEPT !.n = @ + 1, !.start = Len(socket.sent),
                                       !.msg = ObjectWith(code), !.result = NoResult,
                                       !.level = 0, !.exc = None]
             IN  IF Blank(code)
                 THEN /\ socket' = [got EXCEPT !.pc = "send_no_code"]
                      /\ UNCHANGED analyzer
                 ELSE /\ analyzer' = a.an
                      /\ socket' = IF t.outcome = "raised"
                                    THEN [got EXCEPT !.pc = "send_error", !.exc = t.exc]
                                    ELSE [got EXCEPT !.pc = "send_analysis",
                                                     !.result = t.result]
    /\ UNCHANGED <<last, rank, corpus, instance, handed, ctor, hint, calls>>

\* receive_text raises WebSocketDisconnect: the handler returns.
Disconnect ==
    /\ socket.pc = "receive"
    /\ socket' = [socket EXCEPT !.pc = "closed"]
    /\ UNCHANGED <<analyzer, last, rank, corpus, instance, handed, ctor, hint, calls>>

\* The reply to a blank submission, then `continue`.
SendNoCode ==
    /\ socket.pc = "send_no_code"
    /\ socket' = [socket EXCEPT !.pc = "receive", !.sent = Append(@, NoCodeError)]
    /\ UNCHANGED <<analyzer, last, rank, corpus, instance, handed, ctor, hint, calls>>

SendAnalysis ==
    /\ socket.pc = "send_analysis"
    /\ socket' = [socket EXCEPT !.pc = "send_match",
                                !.sent = Append(@, AnalysisMessage(socket.result))]
    /\ UNCHANGED <<analyzer, last, rank, corpus, instance, handed, ctor, hint, calls>>

SendMatch ==
    /\ socket.pc = "send_match"
    /\ socket' = [socket EXCEPT
                    !.pc = IF socket.result.hints = <<>> THEN "send_complete" ELSE "send_hint",
                    !.level = 1,
                    !.sent = Append(@, MatchMessage(socket.result))]
    /\ UNCHANGED <<analyzer, last, rank, corpus, instance, handed, ctor, hint, calls>>

\* One iteration of the loop over the hints.
SendHint ==
    /\ socket.pc = "send_hint"
    /\ socket' = [socket EXCEPT
                    !.pc = IF socket.level = Len(socket.result.hints)
                           THEN "send_complete" ELSE "send_hint",
                    !.level = @ + 1,
                    !.sent = Append(@, HintMessage(socket.result, socket.level))]
    /\ UNCHANGED <<analyzer, last, rank, corpus, instance, handed, ctor, hint, calls>>

SendComplete ==
    /\ socket.pc = "send_complete"
    /\ socket' = [socket EXCEPT !.pc = "receive", !.sent = Append(@, CompleteMessage)]
    /\ UNCHANGED <<analyzer, last, rank, corpus, instance, handed, ctor, hint, calls>>

\* except Exception: the error message, and the handler returns.
SendError ==
    /\ socket.pc = "send_error"
    /\ socket' = ClosedAfterError(socket)
    /\ UNCHANGED <<analyzer, last, rank, corpus, instance, handed, ctor, hint, calls>>

\* One connection to the engine main.py builds at import.
InitSocket ==
    /\ corpus = <<SolNested, SolHash>>
    /\ instance = EngineOver(corpus, <<<<1, 0>>, <<1, 1>>>>)
    /\ analyzer = NewAnalyzer
    /\ handed = TRUE
    /\ ctor = [call |-> "HintAIEngine", outcome |-> "returned", exc |-> None]
    /\ socket = Accepted
    /\ InitRest({"corpus", "instance", "analyzer", "handed", "ctor", "socket"})

NextSocket ==
    \/ Receive
    \/ Disconnect
    \/ SendNoCode
    \/ SendAnalysis
    \/ SendMatch
    \/ SendHint
    \/ SendComplete
    \/ SendError

SpecSocket == InitSocket /\ [][NextSocket]_vars

\* ------------------------------ one analyzer, each call with what it found
HistTokens == {"for", "pass", "dict", "list", "{}", "(", "surrogate"}

HistShapes == UNION {Shapes(n) : n \in 0..MaxHistLines}

\* analyzer.analyze(code), keeping the fields the call found on the analyzer.
AnalyzeAgain ==
    /\ last = NoCall
    /\ \E shape \in HistShapes : \E toks \in [1..Len(shape) -> HistTokens] :
          LET code == Text(shape, toks)
              r    == Analyze(analyzer, code)
          IN  /\ analyzer' = r.an
              /\ last' = [call |-> "analyze", code |-> code, outcome |-> r.outcome,
                          exc |-> r.exc, result |-> r.result, before |-> analyzer]
    /\ UNCHANGED <<rank, corpus, instance, handed, ctor, hint, calls, socket>>

NextHistory ==
    \/ AnalyzeAgain
    \/ AnalyzeReturn

SpecHistory == InitAnalyze /\ [][NextHistory]_vars

\* ------------------------------------------------------------------ claims
\* The longest chain of loops each directly in the body of the one before,
\* starting at loop statement i and counting i.
RECURSIVE NestFrom(_, _)
NestFrom(code, i) ==
    LET inner == {NestFrom(code, j) : j \in {b \in BodySet(code, i) : IsLoopNode(code, b)}}
    IN  1 + (IF inner = {} THEN 0 ELSE CHOOSE m \in inner : \A x \in inner : x <= m)

DeepestNest(code) ==
    LET all == {NestFrom(code, i) : i \in {l \in 1..Len(code) : IsLoopNode(code, l)}}
    IN  IF all = {} THEN 0 ELSE CHOOSE m \in all : \A x \in all : x <= m

\* Two scores that are equal floats (nan equals nothing).
FloatEq(x, y) == ~x.nan /\ ~y.nan /\ x.num * y.den = y.num * x.den

HintAnswered == hint.call = "get_hint"

\* C1: get_hint on code that fails to parse returns an error result with
\* pattern invalid and no hints, and calls neither the embedding function nor
\* the ranker.
C1_InvalidCodeShortCircuits ==
    (HintAnswered /\ ParseFails(hint.code)) =>
        /\ hint.outcome = "returned"
        /\ hint.trace = <<>>
        /\ ~Has(hint.result, "hints")
        /\ Has(hint.result, "pattern")
        /\ hint.result.pattern = "invalid"

\* C2: a valid text whose deepest chain of directly nested loops has k >= 2
\* loops is analysed with nested_loop_depth = k and pattern nested_loops (so a
\* for directly holding one for gives depth 2, nested_loops, loop_count 2).
C2_NestedDepthIsChainLength ==
    (/\ last.call = "analyze"
     /\ ~ParseFails(last.code)
     /\ DeepestNest(last.code) >= 2) =>
        /\ last.result.nested_loop_depth = DeepestNest(last.code)
        /\ last.result.pattern = "nested_loops"

\* C3: whatever the interleaving of the get_hint calls on the shared engine,
\* each call gets the analysis it would get running alone.
C3_ConcurrentCallsDoNotInterfere ==
    \A c \in Callers :
        calls[c].pc \in {"analyzed", "done"} =>
            calls[c].analysis = Analyze(NewAnalyzer, calls[c].code).result

FullyInitialized ==
    /\ instance.exists
    /\ instance.attrs = AllAttrs
    /\ Len(instance.solution_embeddings) = Len(corpus)

\* C4: on an engine built over a non-empty corpus, get_hint on valid, non-empty
\* code never raises: a failing embedding or ranking step is reported in the
\* result it returns.
C4_GetHintNeverRaises ==
    (/\ HintAnswered
     /\ FullyInitialized
     /\ Len(corpus) > 0
     /\ hint.code # <<>>
     /\ ~ParseFails(hint.code)) =>
        hint.outcome = "returned"

RankAnswered == rank.call = "find_most_similar"

ScoreOf(i) == Similarity(rank.query, rank.cands[i + 1])

Returned == {rank.out[p][1] : p \in 1..Len(rank.out)}

\* C5: for a positive top_k, find_most_similar returns min(top_k, len) pairs
\* (original index, score), in descending score order, and no candidate left
\* out scores higher than one returned.
C5_TopKBestDescending ==
    (RankAnswered /\ rank.top_k > 0) =>
        /\ Len(rank.out) = (IF rank.top_k < Len(rank.cands) THEN rank.top_k
                            ELSE Len(rank.cands))
        /\ \A p \in 1..Len(rank.out) :
              /\ rank.out[p][1] \in 0..(Len(rank.cands) - 1)
              /\ rank.out[p][2] = ScoreOf(rank.out[p][1])
        /\ \A p, r \in 1..Len(rank.out) :
              p < r => /\ rank.out[p][1] # rank.out[r][1]
                       /\ ~FloatLess(rank.out[p][2], rank.out[r][2])
        /\ \A i \in Returned : \A j \in 0..(Len(rank.cands) - 1) :
              j \notin Returned => ~FloatLess(ScoreOf(i), ScoreOf(j))

\* C6: of two candidates with equal score, the one with the lower original
\* index comes first in the list returned, and is the one kept when top_k
\* cuts between them.
C6_TiesKeepCandidateOrder ==
    RankAnswered =>
        /\ \A p, r \in 1..Len(rank.out) :
              (p < r /\ FloatEq(rank.out[p][2], rank.out[r][2]))
                  => rank.out[p][1] < rank.out[r][1]
        /\ \A i \in Returned : \A j \in 0..(Len(rank.cands) - 1) :
              (j \notin Returned /\ FloatEq(ScoreOf(i), ScoreOf(j))) => i < j

\* C7: find_most_similar with top_k <= 0 reports a configuration error and
\* returns no list of matches.
C7_NonPositiveTopKRejected ==
    (RankAnswered /\ rank.top_k <= 0) => rank.outcome = "raised"

\* C8: a zero-norm query or candidate is rejected with an error, or its
\* comparison is left out: no score for such a pair is ranked.
C8_ZeroNormNeverRanked ==
    RankAnswered =>
        \/ rank.outcome = "raised"
        \/ \A p \in 1..Len(rank.out) :
              /\ NormSq(rank.query) # 0
              /\ NormSq(rank.cands[rank.out[p][1] + 1]) # 0

WellFormedCount == Cardinality({i \in 1..Len(corpus) : WellFormed(corpus[i])})

\* C9: initialization over a corpus with a record missing a required field
\* skips that record and finishes with the embeddings of the others; it does
\* not abort (the embedding model itself working).
C9_MalformedRecordSkipped ==
    (/\ instance.exists
     /\ \E i \in 1..Len(corpus) : ~WellFormed(corpus[i])
     /\ ctor.exc \notin {"ModelLoadError", "EmbeddingError"}) =>
        /\ ctor.outcome = "returned"
        /\ instance.attrs = AllAttrs
        /\ Len(instance.solution_embeddings) = WellFormedCount

\* C10: every engine handed out has as many embeddings as solutions, the i-th
\* computed from the i-th solution, and get_hint changes neither.
C10_CorpusParallel ==
    /\ handed =>
          /\ instance.attrs = AllAttrs
          /\ Len(instance.solutions) = Len(instance.solution_embeddings)
          /\ \A i \in 1..Len(instance.solution_embeddings) :
                /\ WellFormed(instance.solutions[i])
                /\ instance.solution_embeddings[i].of = SolText(instance.solutions[i])
    /\ HintAnswered => hint.before = instance

HashSeen == "dict" \in analyzer.data_structures_used \/ "set" \in analyzer.data_structures_used

\* C11: the pattern _detect_pattern answers is that of the first rule that
\* matches, in the order: depth >= 2 nested_loops; dict or set seen hash_map;
\* one loop single_pass; no loop no_iteration; otherwise unknown.
C11_FirstMatchingRuleWins ==
    last.call = "_detect_pattern" =>
        /\ analyzer.nested_loop_depth >= 2 => last.pattern = "nested_loops"
        /\ (analyzer.nested_loop_depth < 2 /\ HashSeen) => last.pattern = "hash_map"
        /\ (analyzer.nested_loop_depth < 2 /\ ~HashSeen /\ analyzer.loop_count = 1)
              => last.pattern = "single_pass"
        /\ (analyzer.nested_loop_depth < 2 /\ ~HashSeen /\ analyzer.loop_count = 0)
              => last.pattern = "no_iteration"
        /\ (analyzer.nested_loop_depth < 2 /\ ~HashSeen /\ analyzer.loop_count > 1)
              => last.pattern = "unknown"

\* Nested loops and a dict together: the first rule decides.
C11_Witness ==
    /\ last.call = "_detect_pattern"
    /\ analyzer.nested_loop_depth >= 2
    /\ "dict" \in analyzer.data_structures_used
    /\ last.pattern = "nested_loops"

Analyzed == last.call = "analyze" /\ ~ParseFails(last.code)

LoopLines(code) == {i \in 1..Len(code) : IsLoopNode(code, i)}

\* The text names dict or set somewhere.
NamesHash(code) == \E i \in 1..Len(code) : NamesOf(code[i].tok) \cap {"dict", "set"} # {}

\* C12 (as stated): a valid text with no loop is analysed as no_iteration
\* with complexity O(1), whatever names it references.
C12_NoLoopsNoIteration ==
    (Analyzed /\ LoopLines(last.code) = {}) =>
        /\ last.result.pattern = "no_iteration"
        /\ last.result.complexity_estimate = "O(1)"

\* C12 (amended): a valid text with no loop is analysed with complexity O(1),
\* and as no_iteration unless it names dict or set, when it is hash_map.
C12_NoLoopsUnlessHashNamed ==
    (Analyzed /\ LoopLines(last.code) = {}) =>
        /\ last.result.complexity_estimate = "O(1)"
        /\ last.result.pattern =
              (IF NamesHash(last.code) THEN "hash_map" ELSE "no_iteration")

\* A loop-free text naming dict has been analysed as hash_map.
C12_Witness ==
    /\ Analyzed
    /\ LoopLines(last.code) = {}
    /\ NamesHash(last.code)
    /\ last.result.pattern = "hash_map"
    /\ last.result.complexity_estimate = "O(1)"

\* The text creates a mapping as an empty literal (seen = {}).
MakesEmptyMapping(code) == \E i \in 1..Len(code) : code[i].tok = "{}"

\* C13: a text that creates a mapping as an empty literal and probes it inside
\* its one loop is analysed as hash_map.
C13_MappingInOneLoopIsHashMap ==
    (/\ Analyzed
     /\ MakesEmptyMapping(last.code)
     /\ Cardinality(LoopLines(last.code)) = 1
     /\ \E i \in LoopLines(last.code) :
           /\ last.code[i].tok = "for"
           /\ \E j \in BodySet(last.code, i) : last.code[j].tok = "if") =>
        last.result.pattern = "hash_map"

\* The ranking the answered get_hint call got from the ranker.
HintMatches ==
    FindMostSimilar(hint.query.vec, VecsOf(instance.solution_embeddings), HintTopK)

HintResultGiven ==
    /\ HintAnswered
    /\ ~ParseFails(hint.code)
    /\ Len(corpus) > 0
    /\ hint.outcome = "returned"

\* C14: the result of get_hint agrees with the ranking: matched_solution and
\* hints are those of the record at the top-ranked index (all its hints, in
\* order), similarity_score is the first top_matches score, top_matches has
\* min(3, corpus size) entries in descending score order naming the ranked
\* records, and the top-ranked record scores highest of the corpus.
C14_ResultFollowsRanking ==
    HintResultGiven =>
        \A matches \in {HintMatches} :
        LET r    == hint.result
            best == corpus[matches[1][1] + 1]
            sim(i) == Similarity(hint.query.vec, instance.solution_embeddings[i].vec)
        IN  /\ r.matched_solution =
                  [problem |-> best.problem, approach |-> best.approach,
                   time_complexity |-> best.time_complexity,
                   space_complexity |-> best.space_complexity]
            /\ r.hints = best.hints
            /\ r.similarity_score = r.top_matches[1].similarity
            /\ Len(r.top_matches) = (IF Len(corpus) < 3 THEN Len(corpus) ELSE 3)
            /\ \A m \in 1..Len(r.top_matches) :
                  /\ r.top_matches[m].problem = corpus[matches[m][1] + 1].problem
                  /\ r.top_matches[m].approach = corpus[matches[m][1] + 1].approach
                  /\ r.top_matches[m].similarity = sim(matches[m][1] + 1)
            /\ \A m \in 1..(Len(r.top_matches) - 1) :
                  ~FloatLess(r.top_matches[m].similarity, r.top_matches[m + 1].similarity)
            /\ \A i \in 1..Len(corpus) : ~FloatLess(r.similarity_score, sim(i))
            /\ Len(corpus) = 1 => (best = corpus[1] /\ Len(r.top_matches) = 1)

\* A four-record corpus whose best match is not its first record, cut to
\* three top matches of different scores.
C14_Witness ==
    /\ HintResultGiven
    /\ Len(corpus) = 4
    /\ HintMatches[1][1] # 0
    /\ Len(hint.result.top_matches) = 3
    /\ FloatLess(hint.result.top_matches[3].similarity, hint.result.top_matches[1].similarity)
    /\ hint.result.hints = corpus[HintMatches[1][1] + 1].hints

Connected == socket.pc # "none"

\* What the handler has sent for the submission it received last.
SentNow == SubSeq(socket.sent, socket.start + 1, Len(socket.sent))

OfType(msgs, type) ==
    LET Is(m) == m.type = type
    IN  SelectSeq(msgs, Is)

\* get_hint answered the submission received last.
Answered == Connected /\ socket.result # NoResult

\* C15: for a submission get_hint answers, the analysis message is sent
\* first, then the hints of the matched record one message each, in their
\* order, with levels 1, 2, ..., N, and one complete message, after the last
\* hint and last of all.
C15_AnalysisHintsThenComplete ==
    Answered =>
        LET hints == socket.result.hints
            hs    == OfType(SentNow, "hint")
        IN  /\ SentNow # <<>> =>
                  /\ SentNow[1] = AnalysisMessage(socket.result)
                  /\ Len(OfType(SentNow, "analysis")) = 1
            /\ \E rec \in 1..Len(corpus) :
                  /\ hints = corpus[rec].hints
                  /\ socket.result.matched_solution.approach = corpus[rec].approach
            /\ Len(hs) <= Len(hints)
            /\ \A i \in 1..Len(hs) :
                  hs[i] = [type |-> "hint", level |-> i, text |-> hints[i]]
            /\ \A i \in 1..Len(SentNow) :
                  SentNow[i].type = "complete" =>
                      (i = Len(SentNow) /\ Len(hs) = Len(hints))
            /\ OfType(SentNow, "error") = <<>>
            /\ socket.pc = "receive" =>
                  (SentNow # <<>> /\ SentNow[Len(SentNow)] = CompleteMessage)

\* A second submission on the connection has been answered in full with a
\* record of three hints.
C15_Witness ==
    /\ Answered
    /\ socket.n = 2
    /\ socket.pc = "receive"
    /\ Len(socket.result.hints) = 3
    /\ Len(SentNow) = 6
    /\ SentNow[5] = [type |-> "hint", level |-> 3, text |-> "n3"]
    /\ SentNow[6] = CompleteMessage

\* C19: after a blank submission the handler sends one error and receives
\* again; once handling a message raised (get_hint failing, a message that is
\* no JSON), it sends one error message and no complete for that submission,
\* and receives nothing more on the connection.
C19_BlankGoesOnErrorEnds ==
    Connected =>
        /\ (socket.n > 0 /\ socket.msg.kind = "object" /\ Blank(socket.msg.code)) =>
              /\ socket.exc = None
              /\ socket.pc \in {"send_no_code", "receive", "closed"}
              /\ socket.pc = "send_no_code" => SentNow = <<>>
              /\ socket.pc # "send_no_code" => SentNow = <<NoCodeError>>
        /\ (socket.n > 0 /\ (socket.msg.kind = "malformed" \/ ParseFails(socket.msg.code))) =>
              socket.exc # None
        /\ socket.exc # None =>
              /\ socket.pc \in {"send_error", "closed"}
              /\ socket.pc = "send_error" => SentNow = <<>>
              /\ socket.pc = "closed" => SentNow = <<ErrorMessage(socket.exc)>>

\* After get_hint failed on a syntax error in the second submission, the
\* first having been blank: one error sent, the handler gone.
C19_Witness ==
    /\ Connected
    /\ socket.n = 2
    /\ socket.pc = "closed"
    /\ socket.msg.kind = "object"
    /\ ParseFails(socket.msg.code)
    /\ socket.exc = "KeyError"
    /\ socket.sent = <<NoCodeError, ErrorMessage("KeyError")>>

\* What analyze gives for the text on an analyzer just constructed.
Fresh(code) == Analyze(NewAnalyzer, code)

\* C16: whatever calls the analyzer answered before, failed ones included,
\* analyze(code) ends as it does on a fresh analyzer: the same dict, or the
\* same exception.
C16_AnalyzeIgnoresHistory ==
    last.call = "analyze" =>
        /\ last.outcome = Fresh(last.code).outcome
        /\ last.exc = Fresh(last.code).exc
        /\ last.result = Fresh(last.code).result

\* A loop-free text analysed on an analyzer that an earlier call left with a
\* loop counted and dict recorded.
C16_Witness ==
    /\ last.call = "analyze"
    /\ last.before.loop_count > 0
    /\ "dict" \in last.before.data_structures_used
    /\ last.outcome = "returned"
    /\ ~ParseFails(last.code)
    /\ last.result.loop_count = 0
    /\ last.result.data_structures = {}
    /\ last.result.pattern = "no_iteration"

\* C17: analyze does not raise on a text that fails to parse: it returns a
\* dict with pattern invalid and an error message; and the pattern returned
\* is invalid only for such a text.
C17_ParseFailureIsReturned ==
    last.call = "analyze" =>
        /\ ParseFails(last.code) =>
              /\ last.outcome = "returned"
              /\ Has(last.result, "error")
              /\ last.result.pattern = "invalid"
        /\ (last.outcome = "returned" /\ last.result.pattern = "invalid") =>
              ParseFails(last.code)

\* C18: the nesting walk starts at every loop, a while as well as a for: the
\* depth reported is no less than the chain under any loop of the text, so a
\* chain under a while counts as the same chain under a for does.
C18_WalkStartsAtEveryLoop ==
    Analyzed =>
        \A i \in LoopLines(last.code) :
            last.result.nested_loop_depth >= ChainDepth(last.code, i)

====
